---- MODULE Spec2Model ----
(***************************************************************************)
(* State-machine model of the entity/component/ability simulation layer:   *)
(* CharacterComponent, Ability / AbilityComponent and the concrete hero     *)
(* abilities, TowerComponent, the EntityManager registry and the scene's    *)
(* frame update.                                                            *)
(*                                                                          *)
(* Units.  Mana is kept in fifths of a point, so that the passive           *)
(* regeneration of 2% of maxMana per second is a whole number for every     *)
(* maxMana the code produces (multiples of 10).  Lengths are kept in        *)
(* twentieths of a world unit (0.05), so that the 0.1 stop threshold and    *)
(* a 0.05 offset are whole numbers.  Time is in whole seconds.  Characters  *)
(* move on the x axis; y is the height of the mesh.                         *)
(***************************************************************************)
EXTENDS Integers, Sequences, FiniteSets, TLC

VARIABLES characters, abilities, shield, lastOp, nOps, sinceActivate,
          entities, entitiesByTag, heap, updateLog, tower, towerBefore, clock,
          hookLog

vars == <<characters, abilities, shield, lastOp, nOps, sinceActivate,
          entities, entitiesByTag, heap, updateLog, tower, towerBefore, clock,
          hookLog>>

charVars == <<characters, abilities, shield, sinceActivate>>
ecsVars == <<entities, entitiesByTag, heap, updateLog>>
towerVars == <<tower, towerBefore, clock>>

\* Longest sequence of operations explored.
MaxOps == 3

\* Most return-to-Idle callbacks pending at once for one character.
MaxTimers == 1

Fifths(x) == 5 * x
Len20(x) == 20 * x

Max(a, b) == IF a >= b THEN a ELSE b
Min(a, b) == IF a <= b THEN a ELSE b
Abs(a) == IF a >= 0 THEN a ELSE -a
Sign(a) == IF a > 0 THEN 1 ELSE IF a < 0 THEN -1 ELSE 0

(***************************************************************************)
(* CharacterComponent                                                       *)
(***************************************************************************)
Chars == {"hero", "enemy"}

\* createHeroes: the blue hero is a Bellato engineer, the red one Accretia.
Race(c) == IF c = "hero" THEN "bellato" ELSE "accretia"

\* _targetPosition is a one-element tuple <<x>>, or empty when undefined.
NoPosition == << >>

initializeStats(race) ==
    CASE race = "bellato" ->
           [health |-> 100, maxHealth |-> 100, mana |-> Fifths(100), maxMana |-> Fifths(100),
            attack |-> 10, defense |-> 5, speed |-> 3, level |-> 1, experience |-> 0]
      [] race = "cora" ->
           [health |-> 80, maxHealth |-> 80, mana |-> Fifths(120), maxMana |-> Fifths(120),
            attack |-> 15, defense |-> 3, speed |-> 4, level |-> 1, experience |-> 0]
      [] race = "accretia" ->
           [health |-> 120, maxHealth |-> 120, mana |-> Fifths(80), maxMana |-> Fifths(80),
            attack |-> 12, defense |-> 8, speed |-> 2, level |-> 1, experience |-> 0]
      [] OTHER ->
           [health |-> 100, maxHealth |-> 100, mana |-> Fifths(100), maxMana |-> Fifths(100),
            attack |-> 10, defense |-> 5, speed |-> 3, level |-> 1, experience |-> 0]

\* The constructor: the placeholder mesh stands one unit above the given
\* position (y = 0.5 in createHeroes, so the mesh is at 1.5 = 30 twentieths),
\* no animation groups are loaded yet.
NewCharacter(race, x) ==
    [race |-> race,
     stats |-> initializeStats(race),
     isDead |-> FALSE,
     isMoving |-> FALSE,
     targetPosition |-> NoPosition,
     position |-> [x |-> x, y |-> 30],
     animationGroups |-> FALSE,
     animationState |-> "Idle",
     idleTimers |-> 0]

\* playAnimation: on every path the requested state becomes the state hint.
playAnimation(ch, state) == [ch EXCEPT !.animationState = state]

\* die: the Dying hint with animation groups, else the mesh is lowered to y = 0.5.
die(ch) ==
    IF ch.animationGroups
    THEN playAnimation(ch, "dying")
    ELSE [ch EXCEPT !.position.y = 10]

takeDamage(ch, amount) ==
    IF ch.isDead THEN ch
    ELSE LET h == ch.stats.health - amount IN
         IF h <= 0
         THEN die([ch EXCEPT !.stats.health = 0, !.isDead = TRUE])
         ELSE [ch EXCEPT !.stats.health = h]

\* heal without the death check.
heal_noDeadCheck(ch, amount) ==
    LET h == ch.stats.health + amount IN
    [ch EXCEPT !.stats.health = IF h > ch.stats.maxHealth THEN ch.stats.maxHealth ELSE h]

heal(ch, amount) ==
    IF ch.isDead THEN ch
    ELSE LET h == ch.stats.health + amount IN
         [ch EXCEPT !.stats.health = IF h > ch.stats.maxHealth THEN ch.stats.maxHealth ELSE h]

restoreMana(ch, amount) ==
    LET m == ch.stats.mana + amount IN
    [ch EXCEPT !.stats.mana = IF m > ch.stats.maxMana THEN ch.stats.maxMana ELSE m]

spendManaOk(ch, amount) == ch.stats.mana >= amount

\* spendMana without the mana >= amount check.
spendMana_unchecked(ch, amount) == [ch EXCEPT !.stats.mana = ch.stats.mana - amount]

spendMana(ch, amount) ==
    IF spendManaOk(ch, amount)
    THEN [ch EXCEPT !.stats.mana = ch.stats.mana - amount]
    ELSE ch

\* levelUp that raises the maxima without restoring health and mana.
levelUp_noRestore(ch) ==
    LET s == ch.stats IN
    [ch EXCEPT !.stats =
        [s EXCEPT !.level = s.level + 1,
                  !.experience = 0,
                  !.maxHealth = s.maxHealth + 20,
                  !.maxMana = s.maxMana + Fifths(10),
                  !.attack = s.attack + 2,
                  !.defense = s.defense + 1]]

\* levelUp that carries the experience above the threshold over.
levelUp_keepExcess(ch) ==
    LET s == ch.stats IN
    [ch EXCEPT !.stats =
        [s EXCEPT !.level = s.level + 1,
                  !.experience = s.experience - s.level * 100,
                  !.maxHealth = s.maxHealth + 20,
                  !.health = s.maxHealth + 20,
                  !.maxMana = s.maxMana + Fifths(10),
                  !.mana = s.maxMana + Fifths(10),
                  !.attack = s.attack + 2,
                  !.defense = s.defense + 1]]

levelUp(ch) ==
    LET s == ch.stats IN
    [ch EXCEPT !.stats =
        [s EXCEPT !.level = s.level + 1,
                  !.experience = 0,
                  !.maxHealth = s.maxHealth + 20,
                  !.health = s.maxHealth + 20,
                  !.maxMana = s.maxMana + Fifths(10),
                  !.mana = s.maxMana + Fifths(10),
                  !.attack = s.attack + 2,
                  !.defense = s.defense + 1]]

gainExperience(ch, amount) ==
    LET c1 == [ch EXCEPT !.stats.experience = ch.stats.experience + amount] IN
    IF c1.stats.experience >= c1.stats.level * 100 THEN levelUp(c1) ELSE c1

\* regenerateMana: 2% of maxMana per second, i.e. maxMana * dt / 50.
regenerateMana(ch, deltaTime) ==
    LET regenAmount == (ch.stats.maxMana * 2 * deltaTime) \div 100 IN
    [ch EXCEPT !.stats.mana = Min(ch.stats.mana + regenAmount, ch.stats.maxMana)]

\* moveTowards reports whether it reached the stop threshold (distance < 0.1).
arrived(ch) == Abs(ch.targetPosition[1] - ch.position.x) < 2

\* moveTowards without the stop when the target is closer than 0.1.
moveTowards_noStop(ch, deltaTime) ==
    LET direction == ch.targetPosition[1] - ch.position.x IN
    [ch EXCEPT !.position.x =
        ch.position.x + Sign(direction) * Len20(ch.stats.speed * deltaTime)]

moveTowards(ch, deltaTime) ==
    LET direction == ch.targetPosition[1] - ch.position.x IN
    IF Abs(direction) < 2
    THEN LET c1 == [ch EXCEPT !.isMoving = FALSE, !.targetPosition = NoPosition] IN
         IF c1.animationGroups THEN playAnimation(c1, "Idle") ELSE c1
    ELSE [ch EXCEPT !.position.x =
             ch.position.x + Sign(direction) * Len20(ch.stats.speed * deltaTime)]

moveTo(ch, x) ==
    playAnimation([ch EXCEPT !.isMoving = TRUE, !.targetPosition = <<x>>], "Walk")

stopMovement(ch) == [ch EXCEPT !.isMoving = FALSE, !.targetPosition = NoPosition]

\* The case of update in which moveTowards finds the target closer than 0.1.
closeToTarget(ch) ==
    /\ ~ch.isDead
    /\ ch.isMoving /\ ch.targetPosition # NoPosition
    /\ arrived(ch)

\* update throws for a Bellato character on the tick it arrives: moveTowards
\* has cleared _targetPosition and the tilt code dereferences it.
updateThrows(ch) ==
    /\ ~ch.isDead
    /\ ch.isMoving /\ ch.targetPosition # NoPosition
    /\ arrived(ch)
    /\ ch.race = "bellato"

update(ch, deltaTime) ==
    IF ch.isDead THEN ch
    ELSE IF ch.isMoving /\ ch.targetPosition # NoPosition
    THEN LET c1 == IF ch.animationState # "Walk" THEN playAnimation(ch, "Walk") ELSE ch
             c2 == moveTowards(c1, deltaTime)
         IN  IF updateThrows(ch) THEN c2 ELSE regenerateMana(c2, deltaTime)
    ELSE LET c1 == IF ~ch.isMoving /\ ch.animationGroups /\ ch.animationState # "Idle"
                   THEN playAnimation(ch, "Idle") ELSE ch
         IN  regenerateMana(c1, deltaTime)

\* The damage of attack without the floor of 1.
attackDamage_noFloor(attacker, target) == attacker.stats.attack - target.stats.defense

attackDamage(attacker, target) == Max(1, attacker.stats.attack - target.stats.defense)

\* attack, the attacker's side: the Attacking hint and the one-second
\* return-to-Idle callback, only with animation groups.
attackSelf(attacker) ==
    IF attacker.isDead THEN attacker
    ELSE IF attacker.animationGroups
    THEN [playAnimation(attacker, "attacking") EXCEPT !.idleTimers = attacker.idleTimers + 1]
    ELSE attacker

\* attack, the target's side.
attackTarget(attacker, target) ==
    IF attacker.isDead THEN target
    ELSE takeDamage(target, attackDamage(attacker, target))

\* loadBusterDroneModel's completion: animation groups exist from then on
\* (loaded or created) and the Idle animation is requested.
modelLoaded(ch) == playAnimation([ch EXCEPT !.animationGroups = TRUE], "Idle")

(***************************************************************************)
(* Ability, AbilityComponent and the Bellato engineer's abilities           *)
(***************************************************************************)
AbilityIds == {"laser_beam", "deploy_turret", "shield_generator"}

\* Ability is abstract and handles three kinds; the hero's abilities are all
\* of kind Active.  Two further abilities stand for subclasses of kind
\* Toggle and Passive whose hooks have no effect of their own.
KindIds == {"toggle_ability", "passive_ability"}
AllAbilityIds == AbilityIds \cup KindIds

\* The order in which the abilities were added to the component.
AbilityOrder ==
    <<"laser_beam", "deploy_turret", "shield_generator", "toggle_ability", "passive_ability">>

\* Every ability of createBellatoEngineerHero is bound to that hero.
Owner == "hero"

AbilityData(id) ==
    CASE id = "laser_beam" ->
           [cooldown |-> 3, manaCost |-> Fifths(15), type |-> "active",
            range |-> 10, damage |-> 25, duration |-> 0, class |-> "DirectDamage"]
      [] id = "deploy_turret" ->
           [cooldown |-> 15, manaCost |-> Fifths(40), type |-> "active",
            range |-> 8, damage |-> 0, duration |-> 10, class |-> "DeployTurret"]
      [] id = "shield_generator" ->
           [cooldown |-> 20, manaCost |-> Fifths(30), type |-> "active",
            range |-> 0, damage |-> 0, duration |-> 5, class |-> "ShieldGenerator"]
      [] id = "toggle_ability" ->
           [cooldown |-> 1, manaCost |-> Fifths(10), type |-> "toggle",
            range |-> 0, damage |-> 0, duration |-> 0, class |-> "Generic"]
      [] id = "passive_ability" ->
           [cooldown |-> 1, manaCost |-> Fifths(5), type |-> "passive",
            range |-> 0, damage |-> 0, duration |-> 0, class |-> "Generic"]

NoTarget == "none"
Point == "point"

\* The targets GameplayScene hands to activateAbility, by ability.
TargetsOf(id) ==
    CASE AbilityData(id).class = "DirectDamage" -> {NoTarget} \cup Chars
      [] AbilityData(id).class = "DeployTurret" -> {NoTarget, Point}
      [] OTHER -> {NoTarget}

\* A range check that only looks at the height difference.
withinRange_heightOnly(a, b, range) ==
    LET dy == a.position.y - b.position.y
    IN  dy * dy <= Len20(range) * Len20(range)

\* Vector3.Distance(a, b) <= range, on squares.
withinRange(a, b, range) ==
    LET dx == a.position.x - b.position.x
        dy == a.position.y - b.position.y
    IN  dx * dx + dy * dy <= Len20(range) * Len20(range)

canActivate(id, target, cs) ==
    CASE AbilityData(id).class = "DirectDamage" ->
           /\ target # NoTarget
           /\ ~cs[target].isDead
           /\ withinRange(cs[Owner], cs[target], AbilityData(id).range)
      [] AbilityData(id).class = "DeployTurret" -> target # NoTarget
      [] OTHER -> TRUE

\* performEffect: what it does to the characters ...
performEffectChars(id, target, cs) ==
    CASE AbilityData(id).class = "DirectDamage" ->
           IF target = NoTarget THEN cs
           ELSE [cs EXCEPT ![target] = takeDamage(@, AbilityData(id).damage)]
      [] AbilityData(id).class = "ShieldGenerator" ->
           [cs EXCEPT ![Owner].stats.defense = (cs[Owner].stats.defense * 3) \div 2]
      [] OTHER -> cs

\* ... and to the shield generator's private fields.
performEffectShield(id, cs, sh) ==
    IF AbilityData(id).class = "ShieldGenerator"
    THEN [originalDefense |-> cs[Owner].stats.defense,
          buffActive |-> TRUE,
          buffDuration |-> IF AbilityData(id).duration # 0 THEN AbilityData(id).duration ELSE 5]
    ELSE sh

\* activate without the cooldown check.
activatePath_noCooldown(id, target, cs, as) ==
    IF cs[Owner].stats.mana < AbilityData(id).manaCost THEN "mana"
    ELSE IF ~canActivate(id, target, cs) THEN "precondition"
    ELSE "ok"

\* The check of activate that rejects the call, or "ok".
activatePath(id, target, cs, as) ==
    IF as[id].remainingCooldown > 0 THEN "cooldown"
    ELSE IF cs[Owner].stats.mana < AbilityData(id).manaCost THEN "mana"
    ELSE IF ~canActivate(id, target, cs) THEN "precondition"
    ELSE "ok"

activateChars(id, target, cs, as) ==
    IF activatePath(id, target, cs, as) # "ok" THEN cs
    ELSE LET c1 == [cs EXCEPT ![Owner].stats.mana = cs[Owner].stats.mana - AbilityData(id).manaCost]
         IN  IF AbilityData(id).type = "active" THEN performEffectChars(id, target, c1) ELSE c1

\* activate that switches a toggle ability on instead of flipping it.
activateAbilities_toggleOn(id, target, cs, as) ==
    IF activatePath(id, target, cs, as) # "ok" THEN as
    ELSE [as EXCEPT ![id] =
            [remainingCooldown |-> AbilityData(id).cooldown,
             isActive |-> IF AbilityData(id).type = "toggle" THEN TRUE
                          ELSE IF AbilityData(id).type = "active" THEN FALSE
                          ELSE as[id].isActive]]

\* activate that leaves the cooldown as it was.
activateAbilities_noCooldown(id, target, cs, as) ==
    IF activatePath(id, target, cs, as) # "ok" THEN as
    ELSE [as EXCEPT ![id].isActive =
            IF AbilityData(id).type = "toggle" THEN ~as[id].isActive
            ELSE IF AbilityData(id).type = "active" THEN FALSE
            ELSE as[id].isActive]

activateAbilities(id, target, cs, as) ==
    IF activatePath(id, target, cs, as) # "ok" THEN as
    ELSE [as EXCEPT ![id] =
            [remainingCooldown |-> AbilityData(id).cooldown,
             isActive |-> IF AbilityData(id).type = "toggle" THEN ~as[id].isActive
                          ELSE IF AbilityData(id).type = "active" THEN FALSE
                          ELSE as[id].isActive]]

\* activate that runs the effect hook before it deducts mana and sets the cooldown.
activateHooks_effectFirst(id, target, cs, as) ==
    IF activatePath(id, target, cs, as) = "ok" /\ AbilityData(id).type = "active"
    THEN << [hook |-> "performEffect", id |-> id,
             mana |-> cs[Owner].stats.mana,
             remainingCooldown |-> as[id].remainingCooldown,
             isActive |-> TRUE] >>
    ELSE << >>

\* The effect hook activate invokes, with the owner's mana, the remaining
\* cooldown and the active flag as they are when the hook is entered.
activateHooks(id, target, cs, as) ==
    IF activatePath(id, target, cs, as) = "ok" /\ AbilityData(id).type = "active"
    THEN << [hook |-> "performEffect", id |-> id,
             mana |-> cs[Owner].stats.mana - AbilityData(id).manaCost,
             remainingCooldown |-> AbilityData(id).cooldown,
             isActive |-> TRUE] >>
    ELSE << >>

activateShield(id, target, cs, as, sh) ==
    IF activatePath(id, target, cs, as) = "ok" /\ AbilityData(id).type = "active"
    THEN performEffectShield(id, cs, sh)
    ELSE sh

deactivate(id, a) ==
    IF AbilityData(id).type = "toggle" /\ a.isActive THEN [a EXCEPT !.isActive = FALSE] ELSE a

\* Ability.update without the floor at 0.
abilityUpdate_noFloor(id, a, deltaTime) ==
    IF a.remainingCooldown > 0
    THEN [a EXCEPT !.remainingCooldown = a.remainingCooldown - deltaTime]
    ELSE a

\* Ability.update, the cooldown part.
abilityUpdate(id, a, deltaTime) ==
    IF a.remainingCooldown > 0
    THEN [a EXCEPT !.remainingCooldown = Max(0, a.remainingCooldown - deltaTime)]
    ELSE a

\* Ability.update calls updateActiveEffect only while the ability is active.
ongoing(id, a) == a.isActive /\ AbilityData(id).type # "passive"

\* ShieldGeneratorAbility.updateActiveEffect
updateActiveEffectShield(sh, deltaTime) ==
    IF ~sh.buffActive THEN sh
    ELSE IF sh.buffDuration - deltaTime <= 0
    THEN [sh EXCEPT !.buffDuration = sh.buffDuration - deltaTime, !.buffActive = FALSE]
    ELSE [sh EXCEPT !.buffDuration = sh.buffDuration - deltaTime]

shieldExpires(sh, deltaTime) == sh.buffActive /\ sh.buffDuration - deltaTime <= 0

(***************************************************************************)
(* Entity and EntityManager.  Entities are objects: heap[r] is the entity   *)
(* with reference r, in creation order.  The id index and the tag index     *)
(* are Maps and Sets, which keep insertion order, so they are sequences.    *)
(***************************************************************************)
\* Most entity objects ever created.
MaxEntities == 2

\* Caller-supplied ids (createBellatoEngineerHero, createHeroes) and tags.
Ids == {"bellato_engineer", "red_hero_1"}
Tags == {"hero", "team_blue"}
ComponentTypes == {"character", "ability"}

NoEntity == 0

NewEntity(id) == [id |-> id, components |-> << >>, tags |-> {}, destroyed |-> FALSE]

\* crypto.randomUUID(): a token no other entity carries.
randomUUID(h) == ToString(Len(h) + 1)

SeqRange(q) == {q[i] : i \in 1..Len(q)}
Without(q, x) == SelectSeq(q, LAMBDA y : y # x)

\* Map.get on the id index: the entity's reference, or NoEntity.
getEntity(es, id) ==
    IF \E i \in 1..Len(es) : es[i].id = id
    THEN es[CHOOSE i \in 1..Len(es) : es[i].id = id].ref
    ELSE NoEntity

\* Map.set on the id index: an existing key keeps its place and gets the new value.
mapSet(es, id, r) ==
    IF \E i \in 1..Len(es) : es[i].id = id
    THEN [i \in 1..Len(es) |-> IF es[i].id = id THEN [id |-> id, ref |-> r] ELSE es[i]]
    ELSE Append(es, [id |-> id, ref |-> r])

mapDelete(es, id) == SelectSeq(es, LAMBDA e : e.id # id)

createEntity(es, h, id) == mapSet(es, id, Len(h) + 1)

\* Entity.destroy: components torn down and cleared, tags cleared.
destroy(e) == [e EXCEPT !.components = << >>, !.tags = {}, !.destroyed = TRUE]

removeEntityHeap(es, h, id) ==
    IF getEntity(es, id) # NoEntity
    THEN [h EXCEPT ![getEntity(es, id)] = destroy(@)]
    ELSE h

removeEntityIndex(es, id) == mapDelete(es, id)

\* removeEntity leaves _entitiesByTag as it is.
removeEntityTags(es, byTag, id) == byTag

\* Map.get on the tag index: the Set of the tag as a sequence, << >> when absent.
tagPresent(byTag, tag) == \E i \in 1..Len(byTag) : byTag[i].tag = tag
tagSet(byTag, tag) ==
    IF tagPresent(byTag, tag)
    THEN byTag[CHOOSE i \in 1..Len(byTag) : byTag[i].tag = tag].set
    ELSE << >>

getEntitiesByTag(byTag, tag) == tagSet(byTag, tag)

addTagToEntity(byTag, r, tag) ==
    IF tagPresent(byTag, tag)
    THEN [i \in 1..Len(byTag) |->
            IF byTag[i].tag = tag /\ r \notin SeqRange(byTag[i].set)
            THEN [tag |-> tag, set |-> Append(byTag[i].set, r)]
            ELSE byTag[i]]
    ELSE Append(byTag, [tag |-> tag, set |-> <<r>>])

\* removeTagFromEntity that keeps the tag's entry when its set becomes empty.
removeTagFromEntity_keepEmpty(byTag, r, tag) ==
    IF tagPresent(byTag, tag)
    THEN [i \in 1..Len(byTag) |->
            IF byTag[i].tag = tag
            THEN [tag |-> tag, set |-> Without(byTag[i].set, r)]
            ELSE byTag[i]]
    ELSE byTag

removeTagFromEntity(byTag, r, tag) ==
    IF tagPresent(byTag, tag)
    THEN IF Len(Without(tagSet(byTag, tag), r)) = 0
         THEN SelectSeq(byTag, LAMBDA t : t.tag # tag)
         ELSE [i \in 1..Len(byTag) |->
                 IF byTag[i].tag = tag
                 THEN [tag |-> tag, set |-> Without(byTag[i].set, r)]
                 ELSE byTag[i]]
    ELSE byTag

addComponent(e, type) ==
    IF type \in SeqRange(e.components) THEN e
    ELSE [e EXCEPT !.components = Append(@, type)]

(***************************************************************************)
(* TowerComponent.  _targets is an array of character components, kept as   *)
(* a sequence of character names; _currentTarget is one of them or unset.   *)
(***************************************************************************)
NewTower ==
    [stats |-> [health |-> 1000, maxHealth |-> 1000, attack |-> 50, defense |-> 20,
                attackRange |-> 10, attackSpeed |-> 1, lastAttackTime |-> 0],
     isDead |-> FALSE,
     targets |-> << >>,
     currentTarget |-> NoTarget]

\* findTargets: the placeholder scan resets the list and the current target.
findTargets(tw) == [tw EXCEPT !.targets = << >>, !.currentTarget = NoTarget]

\* attackTarget strikes when there is a live current target and at least
\* 1 / attackSpeed seconds have passed since the last attack.
towerAttackDue(tw, cs, currentTime) ==
    /\ tw.currentTarget # NoTarget
    /\ ~cs[tw.currentTarget].isDead
    /\ (currentTime - tw.stats.lastAttackTime) * tw.stats.attackSpeed >= 1

\* attackTarget, the tower's side ...
towerAttackTarget(tw, cs, currentTime) ==
    IF towerAttackDue(tw, cs, currentTime)
    THEN [tw EXCEPT !.stats.lastAttackTime = currentTime]
    ELSE tw

\* ... and the target's side.
towerAttackTargetChars(tw, cs, currentTime) ==
    IF towerAttackDue(tw, cs, currentTime)
    THEN [cs EXCEPT ![tw.currentTarget] = takeDamage(@, tw.stats.attack)]
    ELSE cs

towerUpdate(tw, cs, currentTime) ==
    IF tw.isDead THEN tw ELSE towerAttackTarget(findTargets(tw), cs, currentTime)

towerUpdateChars(tw, cs, currentTime) ==
    IF tw.isDead THEN cs ELSE towerAttackTargetChars(findTargets(tw), cs, currentTime)

towerTakeDamage(tw, amount) ==
    IF tw.isDead THEN tw
    ELSE IF tw.stats.health - amount <= 0
    THEN [tw EXCEPT !.stats.health = 0, !.isDead = TRUE]
    ELSE [tw EXCEPT !.stats.health = tw.stats.health - amount]

registered(tw, x) == \E i \in 1..Len(tw.targets) : tw.targets[i] = x

\* registerTarget without the check for a target already in the list.
registerTarget_noIncludes(tw, cs, x) ==
    IF tw.isDead THEN tw
    ELSE LET t1 == [tw EXCEPT !.targets = Append(@, x)]
         IN  IF tw.currentTarget = NoTarget \/ cs[tw.currentTarget].isDead
             THEN [t1 EXCEPT !.currentTarget = x]
             ELSE t1

registerTarget(tw, cs, x) ==
    IF tw.isDead \/ registered(tw, x) THEN tw
    ELSE LET t1 == [tw EXCEPT !.targets = Append(@, x)]
         IN  IF tw.currentTarget = NoTarget \/ cs[tw.currentTarget].isDead
             THEN [t1 EXCEPT !.currentTarget = x]
             ELSE t1

\* Array.indexOf and splice(index, 1): the first occurrence is removed.
indexOf(q, x) == IF \E i \in 1..Len(q) : q[i] = x
                 THEN CHOOSE i \in 1..Len(q) : q[i] = x /\ \A j \in 1..(i - 1) : q[j] # x
                 ELSE -1

splice(q, index) == [i \in 1..(Len(q) - 1) |-> IF i < index THEN q[i] ELSE q[i + 1]]

\* unregisterTarget that leaves the current target as it is.
unregisterTarget_keepCurrent(tw, x) ==
    IF indexOf(tw.targets, x) = -1 THEN tw
    ELSE [tw EXCEPT !.targets = splice(tw.targets, indexOf(tw.targets, x))]

unregisterTarget(tw, x) ==
    IF indexOf(tw.targets, x) = -1 THEN tw
    ELSE LET rest == splice(tw.targets, indexOf(tw.targets, x))
         IN  [tw EXCEPT !.targets = rest,
                        !.currentTarget =
                            IF tw.currentTarget = x
                            THEN IF Len(rest) > 0 THEN rest[1] ELSE NoTarget
                            ELSE tw.currentTarget]

(***************************************************************************)
(* Initial state                                                            *)
(***************************************************************************)
\* The enemy starts within the laser's range of the hero, or outside it.
EnemyStarts == {Len20(5), Len20(12)}

NoOp == [op |-> "init", subject |-> "", target |-> "", arg |-> 0,
         ret |-> "void", path |-> "", dead |-> FALSE]

Init ==
    /\ \E x \in EnemyStarts :
         characters = [c \in Chars |-> NewCharacter(Race(c), IF c = "hero" THEN 0 ELSE x)]
    /\ abilities = [id \in AllAbilityIds |-> [remainingCooldown |-> 0, isActive |-> FALSE]]
    /\ shield = [originalDefense |-> 0, buffActive |-> FALSE, buffDuration |-> 0]
    /\ sinceActivate = [id \in AllAbilityIds |-> AbilityData(id).cooldown]
    /\ lastOp = NoOp
    /\ nOps = 0
    /\ entities = << >>
    /\ entitiesByTag = << >>
    /\ heap = << >>
    /\ updateLog = << >>
    /\ tower = NewTower
    /\ towerBefore = [targets |-> << >>, currentTarget |-> NoTarget]
    /\ clock = 0
    /\ hookLog = << >>

(***************************************************************************)
(* Operations on characters and abilities                                   *)
(***************************************************************************)
DamageAmounts == {30, 200}
HealAmounts == {0, 50}
ManaAmounts == {Fifths(15), Fifths(100)}
ExperienceAmounts == {10, 95, 300}
MoveTargets == {1, Len20(5) + 1, Len20(6)}
DeltaTimes == {0, 1, 2}

\* Every call is one step; it records what was called, with which amount or
\* delta time, and what came back.
\* hookLog holds the ability hooks the call invoked, in order.
CalledHooks(op, subject, target, arg, ret, path, dead, hooks) ==
    /\ nOps' = nOps + 1
    /\ lastOp' = [op |-> op, subject |-> subject, target |-> target, arg |-> arg,
                  ret |-> ret, path |-> path, dead |-> dead]
    /\ hookLog' = hooks

CalledWith(op, subject, target, arg, ret, path, dead) ==
    CalledHooks(op, subject, target, arg, ret, path, dead, << >>)

Called(op, subject, target, ret, path, dead) ==
    CalledWith(op, subject, target, 0, ret, path, dead)

Liveness(ch) == IF ch.isDead THEN "dead" ELSE "alive"

TakeDamage(c, amount) ==
    /\ characters' = [characters EXCEPT ![c] = takeDamage(@, amount)]
    /\ Called("takeDamage", c, "", "void", Liveness(characters[c]), characters[c].isDead)
    /\ UNCHANGED <<abilities, shield, sinceActivate, ecsVars, towerVars>>

Heal(c, amount) ==
    /\ characters' = [characters EXCEPT ![c] = heal(@, amount)]
    /\ Called("heal", c, "", "void", Liveness(characters[c]), characters[c].isDead)
    /\ UNCHANGED <<abilities, shield, sinceActivate, ecsVars, towerVars>>

RestoreMana(c, amount) ==
    /\ characters' = [characters EXCEPT ![c] = restoreMana(@, amount)]
    /\ Called("restoreMana", c, "", "void", Liveness(characters[c]), characters[c].isDead)
    /\ UNCHANGED <<abilities, shield, sinceActivate, ecsVars, towerVars>>

SpendMana(c, amount) ==
    /\ characters' = [characters EXCEPT ![c] = spendMana(@, amount)]
    /\ Called("spendMana", c, "",
              IF spendManaOk(characters[c], amount) THEN "true" ELSE "false",
              Liveness(characters[c]), characters[c].isDead)
    /\ UNCHANGED <<abilities, shield, sinceActivate, ecsVars, towerVars>>

GainExperience(c, amount) ==
    /\ characters' = [characters EXCEPT ![c] = gainExperience(@, amount)]
    /\ CalledWith("gainExperience", c, "", amount, "void",
                  Liveness(characters[c]), characters[c].isDead)
    /\ UNCHANGED <<abilities, shield, sinceActivate, ecsVars, towerVars>>

MoveTo(c, x) ==
    /\ characters' = [characters EXCEPT ![c] = moveTo(@, x)]
    /\ Called("moveTo", c, "", "void", Liveness(characters[c]), characters[c].isDead)
    /\ UNCHANGED <<abilities, shield, sinceActivate, ecsVars, towerVars>>

StopMovement(c) ==
    /\ characters' = [characters EXCEPT ![c] = stopMovement(@)]
    /\ Called("stopMovement", c, "", "void", Liveness(characters[c]), characters[c].isDead)
    /\ UNCHANGED <<abilities, shield, sinceActivate, ecsVars, towerVars>>

Update(c, deltaTime) ==
    /\ characters' = [characters EXCEPT ![c] = update(@, deltaTime)]
    /\ CalledWith("update", c, "", deltaTime,
                  IF updateThrows(characters[c]) THEN "threw" ELSE "void",
                  IF closeToTarget(characters[c]) THEN "arrived" ELSE Liveness(characters[c]),
                  characters[c].isDead)
    /\ UNCHANGED <<abilities, shield, sinceActivate, ecsVars, towerVars>>

Attack(a, t) ==
    /\ a # t
    /\ characters[a].idleTimers < MaxTimers
    /\ characters' = [characters EXCEPT ![a] = attackSelf(@),
                                        ![t] = attackTarget(characters[a], @)]
    /\ Called("attack", a, t, "void", Liveness(characters[a]), characters[a].isDead)
    /\ UNCHANGED <<abilities, shield, sinceActivate, ecsVars, towerVars>>

\* The callback attack scheduled with setTimeout(..., 1000).
IdleTimer(c) ==
    /\ characters[c].idleTimers > 0
    /\ characters' = [characters EXCEPT
                        ![c] = [playAnimation(@, "Idle") EXCEPT !.idleTimers = @ - 1]]
    /\ Called("idleTimer", c, "", "void", Liveness(characters[c]), characters[c].isDead)
    /\ UNCHANGED <<abilities, shield, sinceActivate, ecsVars, towerVars>>

ModelLoaded(c) ==
    /\ characters[c].race = "bellato"
    /\ ~characters[c].animationGroups
    /\ characters' = [characters EXCEPT ![c] = modelLoaded(@)]
    /\ Called("modelLoaded", c, "", "void", Liveness(characters[c]), characters[c].isDead)
    /\ UNCHANGED <<abilities, shield, sinceActivate, ecsVars, towerVars>>

\* AbilityComponent.activateAbility(id, target) for an ability the hero has.
Activate(id, target) ==
    /\ characters' = activateChars(id, target, characters, abilities)
    /\ abilities' = activateAbilities(id, target, characters, abilities)
    /\ shield' = activateShield(id, target, characters, abilities, shield)
    /\ sinceActivate' = IF activatePath(id, target, characters, abilities) = "ok"
                        THEN [sinceActivate EXCEPT ![id] = 0]
                        ELSE sinceActivate
    /\ CalledHooks("activate", id, target, 0,
                   IF activatePath(id, target, characters, abilities) = "ok"
                   THEN "true" ELSE "false",
                   activatePath(id, target, characters, abilities),
                   characters[Owner].isDead,
                   activateHooks(id, target, characters, abilities))
    /\ UNCHANGED <<ecsVars, towerVars>>

Deactivate(id) ==
    /\ abilities' = [abilities EXCEPT ![id] = deactivate(id, @)]
    /\ Called("deactivate", id, "", "void", "", characters[Owner].isDead)
    /\ UNCHANGED <<characters, shield, sinceActivate, ecsVars, towerVars>>

\* AbilityComponent.update: every ability's update, with the same deltaTime.
abilityComponentUpdate(as, deltaTime) ==
    [id \in AllAbilityIds |-> abilityUpdate(id, as[id], deltaTime)]

abilityComponentUpdateShield(as, sh, deltaTime) ==
    IF ongoing("shield_generator", as["shield_generator"])
    THEN updateActiveEffectShield(sh, deltaTime)
    ELSE sh

abilityComponentUpdateChars(cs, as, sh, deltaTime) ==
    IF ongoing("shield_generator", as["shield_generator"]) /\ shieldExpires(sh, deltaTime)
    THEN [cs EXCEPT ![Owner].stats.defense = sh.originalDefense]
    ELSE cs

\* The updateActiveEffect calls of one AbilityComponent.update, in the
\* order of the component's Map.
abilityComponentUpdateHooks(cs, as, deltaTime) ==
    LET active == SelectSeq(AbilityOrder, LAMBDA id : ongoing(id, as[id]))
    IN  [k \in 1..Len(active) |->
            [hook |-> "updateActiveEffect", id |-> active[k],
             mana |-> cs[Owner].stats.mana,
             remainingCooldown |-> abilityUpdate(active[k], as[active[k]], deltaTime).remainingCooldown,
             isActive |-> TRUE]]

\* Seconds ticked since the last successful activate, up to the cooldown.
ticked(since, deltaTime) ==
    [id \in AllAbilityIds |-> Min(since[id] + deltaTime, AbilityData(id).cooldown)]

AbilityUpdate(deltaTime) ==
    /\ abilities' = abilityComponentUpdate(abilities, deltaTime)
    /\ shield' = abilityComponentUpdateShield(abilities, shield, deltaTime)
    /\ characters' = abilityComponentUpdateChars(characters, abilities, shield, deltaTime)
    /\ sinceActivate' = ticked(sinceActivate, deltaTime)
    /\ CalledHooks("abilityUpdate", "", "", deltaTime, "void", "", characters[Owner].isDead,
                   abilityComponentUpdateHooks(characters, abilities, deltaTime))
    /\ UNCHANGED <<ecsVars, towerVars>>

\* Any sequence of at most MaxOps calls on the two characters and the
\* hero's abilities.
Next ==
    \/ \E c \in Chars, amount \in DamageAmounts : nOps < MaxOps /\ TakeDamage(c, amount)
    \/ \E c \in Chars, amount \in HealAmounts : nOps < MaxOps /\ Heal(c, amount)
    \/ \E amount \in ManaAmounts : nOps < MaxOps /\ RestoreMana(Owner, amount)
    \/ \E amount \in ManaAmounts : nOps < MaxOps /\ SpendMana(Owner, amount)
    \/ \E c \in Chars, amount \in ExperienceAmounts : nOps < MaxOps /\ GainExperience(c, amount)
    \/ \E c \in Chars, x \in MoveTargets : nOps < MaxOps /\ MoveTo(c, x)
    \/ \E c \in Chars : nOps < MaxOps /\ StopMovement(c)
    \/ \E c \in Chars, deltaTime \in DeltaTimes : nOps < MaxOps /\ Update(c, deltaTime)
    \/ \E a \in Chars, t \in Chars : nOps < MaxOps /\ Attack(a, t)
    \/ \E c \in Chars : nOps < MaxOps /\ IdleTimer(c)
    \/ \E c \in Chars : nOps < MaxOps /\ ModelLoaded(c)
    \/ \E id \in AbilityIds : \E target \in TargetsOf(id) : nOps < MaxOps /\ Activate(id, target)
    \/ \E deltaTime \in DeltaTimes : nOps < MaxOps /\ AbilityUpdate(deltaTime)

Spec == Init /\ [][Next]_vars

\* Longest sequence of ability calls explored.
MaxAbilityOps == 6

\* The ability protocol alone: activations, the ability component's tick,
\* and what changes the facts activate looks at (mana, the target's life).
NextAbility ==
    \/ \E id \in AbilityIds : \E target \in TargetsOf(id) : nOps < MaxAbilityOps /\ Activate(id, target)
    \/ \E id \in AbilityIds : nOps < MaxAbilityOps /\ Deactivate(id)
    \/ \E deltaTime \in DeltaTimes : nOps < MaxAbilityOps /\ AbilityUpdate(deltaTime)
    \/ \E amount \in ManaAmounts : nOps < MaxAbilityOps /\ SpendMana(Owner, amount)
    \/ \E amount \in ManaAmounts : nOps < MaxAbilityOps /\ RestoreMana(Owner, amount)
    \/ \E amount \in DamageAmounts : nOps < MaxAbilityOps /\ TakeDamage("enemy", amount)

SpecAbility == Init /\ [][NextAbility]_vars

\* Longest sequence of calls on abilities of the three kinds explored.
MaxKindOps == 4

\* An ability component holding abilities of all three kinds.
NextKinds ==
    \/ \E id \in AllAbilityIds : \E target \in TargetsOf(id) :
          nOps < MaxKindOps /\ Activate(id, target)
    \/ \E id \in AllAbilityIds : nOps < MaxKindOps /\ Deactivate(id)
    \/ \E deltaTime \in DeltaTimes : nOps < MaxKindOps /\ AbilityUpdate(deltaTime)
    \/ \E amount \in ManaAmounts : nOps < MaxKindOps /\ SpendMana(Owner, amount)

SpecKinds == Init /\ [][NextKinds]_vars

(***************************************************************************)
(* Operations on the registry.  Callers hold the references createEntity    *)
(* returned; tags and components are only given to entities that were not   *)
(* destroyed.                                                               *)
(***************************************************************************)
Called0(op, subject, ret) ==
    /\ CalledWith(op, subject, "", 0, ret, "", FALSE)
    /\ updateLog' = << >>

Refs == 1..Len(heap)
LiveRefs == {r \in Refs : ~heap[r].destroyed}

CreateEntity(id) ==
    /\ Len(heap) < MaxEntities
    /\ entities' = createEntity(entities, heap, id)
    /\ heap' = Append(heap, NewEntity(id))
    /\ Called0("createEntity", id, "entity")
    /\ UNCHANGED <<entitiesByTag, charVars, towerVars>>

\* createEntity() without an id.
CreateEntityGenerated ==
    /\ Len(heap) < MaxEntities
    /\ entities' = createEntity(entities, heap, randomUUID(heap))
    /\ heap' = Append(heap, NewEntity(randomUUID(heap)))
    /\ Called0("createEntity", randomUUID(heap), "entity")
    /\ UNCHANGED <<entitiesByTag, charVars, towerVars>>

RemoveEntity(id) ==
    /\ heap' = removeEntityHeap(entities, heap, id)
    /\ entities' = IF getEntity(entities, id) # NoEntity
                   THEN removeEntityIndex(entities, id) ELSE entities
    /\ entitiesByTag' = removeEntityTags(entities, entitiesByTag, id)
    /\ Called0("removeEntity", id,
               IF getEntity(entities, id) # NoEntity THEN "true" ELSE "false")
    /\ UNCHANGED <<charVars, towerVars>>

AddTagToEntity(r, tag) ==
    /\ heap' = [heap EXCEPT ![r].tags = @ \cup {tag}]
    /\ entitiesByTag' = addTagToEntity(entitiesByTag, r, tag)
    /\ CalledWith("addTagToEntity", heap[r].id, tag, 0, "void", "", FALSE)
    /\ updateLog' = << >>
    /\ UNCHANGED <<entities, charVars, towerVars>>

RemoveTagFromEntity(r, tag) ==
    /\ heap' = [heap EXCEPT ![r].tags = @ \ {tag}]
    /\ entitiesByTag' = removeTagFromEntity(entitiesByTag, r, tag)
    /\ CalledWith("removeTagFromEntity", heap[r].id, tag, 0, "void",
                  IF SeqRange(tagSet(entitiesByTag, tag)) = {r} THEN "lastOfTag" ELSE "",
                  FALSE)
    /\ updateLog' = << >>
    /\ UNCHANGED <<entities, charVars, towerVars>>

AddComponent(r, type) ==
    /\ heap' = [heap EXCEPT ![r] = addComponent(@, type)]
    /\ Called0("addComponent", heap[r].id, "void")
    /\ UNCHANGED <<entities, entitiesByTag, charVars, towerVars>>

RemoveComponent(r, type) ==
    /\ heap' = [heap EXCEPT ![r].components = Without(@, type)]
    /\ Called0("removeComponent", heap[r].id,
               IF type \in SeqRange(heap[r].components) THEN "true" ELSE "false")
    /\ UNCHANGED <<entities, entitiesByTag, charVars, towerVars>>

\* clear: every entity of the id index is destroyed, both indices emptied.
Clear ==
    /\ heap' = [r \in Refs |->
                  IF \E i \in 1..Len(entities) : entities[i].ref = r
                  THEN destroy(heap[r]) ELSE heap[r]]
    /\ entities' = << >>
    /\ entitiesByTag' = << >>
    /\ Called0("clear", "", "void")
    /\ UNCHANGED <<charVars, towerVars>>

\* Longest sequence of registry calls explored.
MaxRegistryOps == 5

NextECS ==
    \/ \E id \in Ids : nOps < MaxRegistryOps /\ CreateEntity(id)
    \/ nOps < MaxRegistryOps /\ CreateEntityGenerated
    \/ \E id \in Ids : nOps < MaxRegistryOps /\ RemoveEntity(id)
    \/ \E r \in LiveRefs, tag \in Tags : nOps < MaxRegistryOps /\ AddTagToEntity(r, tag)
    \/ \E r \in LiveRefs, tag \in Tags : nOps < MaxRegistryOps /\ RemoveTagFromEntity(r, tag)
    \/ \E r \in LiveRefs, type \in ComponentTypes : nOps < MaxRegistryOps /\ AddComponent(r, type)
    \/ \E r \in LiveRefs, type \in ComponentTypes : nOps < MaxRegistryOps /\ RemoveComponent(r, type)
    \/ nOps < MaxRegistryOps /\ Clear

SpecECS == Init /\ [][NextECS]_vars

(***************************************************************************)
(* A walk: moveTo gives a character a target and the render loop then calls *)
(* update once per frame, here with the same positive frame time from one   *)
(* moveTo to the next.  Frames are not counted, so a walk may go on forever;*)
(* the loop never stops calling update, which is the fairness of SpecWalk.  *)
(***************************************************************************)
PositiveDeltaTimes == DeltaTimes \ {0}

\* Number of moveTo calls explored.
MaxWalks == 2

WalkUpdate(c) ==
    \E deltaTime \in PositiveDeltaTimes :
        /\ lastOp.op = "update" => deltaTime = lastOp.arg
        /\ characters' = [characters EXCEPT ![c] = update(@, deltaTime)]
        /\ lastOp' = [op |-> "update", subject |-> c, target |-> "", arg |-> deltaTime,
                      ret |-> IF updateThrows(characters[c]) THEN "threw" ELSE "void",
                      path |-> IF closeToTarget(characters[c]) THEN "arrived"
                               ELSE Liveness(characters[c]),
                      dead |-> characters[c].isDead]
        /\ hookLog' = << >>
        /\ UNCHANGED <<nOps, abilities, shield, sinceActivate, ecsVars, towerVars>>

NextWalk ==
    \/ \E c \in Chars, x \in MoveTargets : nOps < MaxWalks /\ MoveTo(c, x)
    \/ \E c \in Chars : WalkUpdate(c)

SpecWalk ==
    /\ Init
    /\ [][NextWalk]_vars
    /\ \A c \in Chars : WF_vars(WalkUpdate(c))

(***************************************************************************)
(* The scene's entities and the frame update.  createBellatoEngineerHero    *)
(* gives "bellato_engineer" a character and an ability component,           *)
(* createHeroEntity gives "red_hero_1" a character component.               *)
(***************************************************************************)
SceneComponents(id) ==
    IF id = "bellato_engineer" THEN {"character", "ability"} ELSE {"character"}

CharacterOf(id) == IF id = "bellato_engineer" THEN "hero" ELSE "enemy"

\* The component update calls EntityManager.update makes when none throws:
\* Map.forEach over _entities, and within each entity over _components.
RECURSIVE entityCalls(_, _, _)
entityCalls(es, h, i) ==
    IF i > Len(es) THEN << >>
    ELSE [j \in 1..Len(h[es[i].ref].components) |->
             [ref |-> es[i].ref, type |-> h[es[i].ref].components[j]]]
         \o entityCalls(es, h, i + 1)

\* One component's update within the frame; an exception ends the frame.
componentUpdate(st, call, h, deltaTime) ==
    LET c == CharacterOf(h[call.ref].id)
        logged == Append(st.log, [ref |-> call.ref, type |-> call.type, deltaTime |-> deltaTime])
    IN  IF call.type = "character"
        THEN [st EXCEPT !.characters = [st.characters EXCEPT ![c] = update(@, deltaTime)],
                        !.threw = updateThrows(st.characters[c]),
                        !.log = logged]
        ELSE [st EXCEPT !.abilities = abilityComponentUpdate(st.abilities, deltaTime),
                        !.hooks = st.hooks \o abilityComponentUpdateHooks(st.characters,
                                                                          st.abilities, deltaTime),
                        !.shield = abilityComponentUpdateShield(st.abilities, st.shield, deltaTime),
                        !.characters = abilityComponentUpdateChars(st.characters, st.abilities,
                                                                   st.shield, deltaTime),
                        !.since = ticked(st.since, deltaTime),
                        !.log = logged]

RECURSIVE entityManagerUpdate(_, _, _, _, _)
entityManagerUpdate(calls, k, st, h, deltaTime) ==
    IF k > Len(calls) \/ st.threw THEN st
    ELSE entityManagerUpdate(calls, k + 1, componentUpdate(st, calls[k], h, deltaTime),
                             h, deltaTime)

\* The scene creates each of its entities once.
SceneCreateEntity(id) ==
    /\ \A r \in Refs : heap[r].id # id
    /\ CreateEntity(id)

SceneAddComponent(r, type) ==
    /\ type \in SceneComponents(heap[r].id)
    /\ AddComponent(r, type)

\* EntityManager.update(deltaTime).
EntityManagerUpdate(deltaTime) ==
    LET st == entityManagerUpdate(entityCalls(entities, heap, 1), 1,
                                  [characters |-> characters, abilities |-> abilities,
                                   shield |-> shield, since |-> sinceActivate,
                                   log |-> << >>, hooks |-> << >>, threw |-> FALSE],
                                  heap, deltaTime)
    IN  /\ characters' = st.characters
        /\ abilities' = st.abilities
        /\ shield' = st.shield
        /\ sinceActivate' = st.since
        /\ updateLog' = st.log
        /\ CalledHooks("entityManagerUpdate", "", "", deltaTime,
                       IF st.threw THEN "threw" ELSE "void", "", FALSE, st.hooks)
        /\ UNCHANGED <<entities, entitiesByTag, heap, towerVars>>

\* _selectedCharacter: the scene selects the blue hero's entity at setup and
\* keeps the reference whether or not the manager still lists the entity.
selectedCharacter(h) ==
    IF \E r \in 1..Len(h) : h[r].id = "bellato_engineer"
    THEN CHOOSE r \in 1..Len(h) : h[r].id = "bellato_engineer"
    ELSE NoEntity

\* getComponent("character") on the selected entity.
selectedComponent(h) ==
    IF selectedCharacter(h) # NoEntity
       /\ "character" \in SeqRange(h[selectedCharacter(h)].components)
    THEN CharacterOf(h[selectedCharacter(h)].id)
    ELSE NoTarget

\* Keys held during a frame (the _moveLeft / _moveRight flags) and the
\* direction they give along x.
Keys == {"none", "left", "right"}
moveDirection(key) == IF key = "left" THEN -1 ELSE IF key = "right" THEN 1 ELSE 0

\* Height of the surface the downward ray hits, or NoSurface when it misses.
NoSurface == -1
Surfaces == {NoSurface, 10}
OBJECT_HEIGHT_OFFSET == 10

\* updateCharacterPositionOnTerrain: x is set; on a hit y is blended
\* 0.92 / 0.08 with the surface height plus the race's offset.
updateCharacterPositionOnTerrain(ch, newX, surface) ==
    LET heightOffset == IF ch.race = "bellato" THEN Len20(1) ELSE OBJECT_HEIGHT_OFFSET IN
    IF surface # NoSurface
    THEN [ch EXCEPT !.position.x = newX,
                    !.position.y = (ch.position.y * 92 + (surface + heightOffset) * 8) \div 100]
    ELSE [ch EXCEPT !.position.x = newX]

\* processKeyboardMovement: with a key held the selected character is moved
\* by speed * deltaTime and given a target 10 units ahead; with no key held
\* it is stopped.
processKeyboardMovement(cs, h, deltaTime, key, surface) ==
    LET c == selectedComponent(h) IN
    IF c = NoTarget THEN cs
    ELSE IF cs[c].isDead THEN cs
    ELSE IF moveDirection(key) # 0
    THEN LET moved == updateCharacterPositionOnTerrain(
                          cs[c],
                          cs[c].position.x
                            + moveDirection(key) * Len20(cs[c].stats.speed * deltaTime),
                          surface)
         IN  [cs EXCEPT ![c] = moveTo(moved, moved.position.x + moveDirection(key) * Len20(10))]
    ELSE [cs EXCEPT ![c] = stopMovement(@)]

\* handleModelClick: the selected character is sent to the picked point.
HandleModelClick(x) ==
    /\ characters' = IF selectedComponent(heap) # NoTarget
                     THEN [characters EXCEPT ![selectedComponent(heap)] = moveTo(@, x)]
                     ELSE characters
    /\ CalledWith("handleModelClick", selectedComponent(heap), "", x,
                  IF selectedComponent(heap) # NoTarget THEN "moved" ELSE "void", "", FALSE)
    /\ updateLog' = << >>
    /\ UNCHANGED <<abilities, shield, sinceActivate, entities, entitiesByTag, heap, towerVars>>

\* GameplayScene.update: processKeyboardMovement(deltaTime), then
\* EntityManager.update(deltaTime).
GameplayUpdate(deltaTime, key, surface) ==
    LET st == entityManagerUpdate(entityCalls(entities, heap, 1), 1,
                                  [characters |-> processKeyboardMovement(
                                                      characters, heap, deltaTime, key, surface),
                                   abilities |-> abilities,
                                   shield |-> shield, since |-> sinceActivate,
                                   log |-> << >>, hooks |-> << >>, threw |-> FALSE],
                                  heap, deltaTime)
    IN  /\ characters' = st.characters
        /\ abilities' = st.abilities
        /\ shield' = st.shield
        /\ sinceActivate' = st.since
        /\ updateLog' = st.log
        /\ CalledHooks("gameplayUpdate", selectedComponent(heap), "", deltaTime,
                       IF st.threw THEN "threw" ELSE "void", key, FALSE, st.hooks)
        /\ UNCHANGED <<entities, entitiesByTag, heap, towerVars>>

\* Longest sequence of scene calls explored.
MaxSceneOps == 6

NextScene ==
    \/ \E id \in Ids : nOps < MaxSceneOps /\ SceneCreateEntity(id)
    \/ \E id \in Ids : nOps < MaxSceneOps /\ RemoveEntity(id)
    \/ \E r \in LiveRefs, type \in ComponentTypes : nOps < MaxSceneOps /\ SceneAddComponent(r, type)
    \/ \E r \in LiveRefs, tag \in Tags : nOps < MaxSceneOps /\ AddTagToEntity(r, tag)
    \/ \E deltaTime \in DeltaTimes : nOps < MaxSceneOps /\ EntityManagerUpdate(deltaTime)
    \/ \E x \in MoveTargets : nOps < MaxSceneOps /\ HandleModelClick(x)
    \/ \E deltaTime \in DeltaTimes, key \in Keys, surface \in Surfaces :
           nOps < MaxSceneOps /\ (key = "none" => surface = NoSurface)
                              /\ GameplayUpdate(deltaTime, key, surface)

SpecScene == Init /\ [][NextScene]_vars

(***************************************************************************)
(* Operations on the tower.  towerBefore keeps the candidate list and the   *)
(* current target the tower had before its latest call.                     *)
(***************************************************************************)
TowerDamageAmounts == {400, 1000}

\* Seconds by which performance.now() has advanced at an update of the tower.
ElapsedTimes == {0, 1}

TowerCalled(op, target, arg, path) ==
    /\ CalledWith(op, "tower", target, arg, "void", path, tower.isDead)
    /\ towerBefore' = [targets |-> tower.targets, currentTarget |-> tower.currentTarget]

RegisterTarget(x) ==
    /\ tower' = registerTarget(tower, characters, x)
    /\ TowerCalled("registerTarget", x, 0,
                   IF tower.isDead THEN "dead"
                   ELSE IF registered(tower, x) THEN "present" ELSE "added")
    /\ UNCHANGED <<charVars, ecsVars, clock>>

UnregisterTarget(x) ==
    /\ tower' = unregisterTarget(tower, x)
    /\ TowerCalled("unregisterTarget", x, 0,
                   IF registered(tower, x) THEN "removed" ELSE "absent")
    /\ UNCHANGED <<charVars, ecsVars, clock>>

TowerUpdate(deltaTime, elapsed) ==
    /\ clock' = clock + elapsed
    /\ tower' = towerUpdate(tower, characters, clock + elapsed)
    /\ characters' = towerUpdateChars(tower, characters, clock + elapsed)
    /\ TowerCalled("towerUpdate", "", deltaTime, IF tower.isDead THEN "dead" ELSE "alive")
    /\ UNCHANGED <<abilities, shield, sinceActivate, ecsVars>>

TowerTakeDamage(amount) ==
    /\ tower' = towerTakeDamage(tower, amount)
    /\ TowerCalled("towerTakeDamage", "", amount, IF tower.isDead THEN "dead" ELSE "alive")
    /\ UNCHANGED <<charVars, ecsVars, clock>>

\* Longest sequence of calls on the tower and its targets explored.
MaxTowerOps == 4

\* The tower with the two characters as its possible targets, and the
\* per-frame updates of all three kinds of component.
NextTower ==
    \/ \E x \in Chars : nOps < MaxTowerOps /\ RegisterTarget(x)
    \/ \E x \in Chars : nOps < MaxTowerOps /\ UnregisterTarget(x)
    \/ \E deltaTime \in DeltaTimes, elapsed \in ElapsedTimes :
          nOps < MaxTowerOps /\ TowerUpdate(deltaTime, elapsed)
    \/ \E amount \in TowerDamageAmounts : nOps < MaxTowerOps /\ TowerTakeDamage(amount)
    \/ \E c \in Chars, amount \in DamageAmounts : nOps < MaxTowerOps /\ TakeDamage(c, amount)
    \/ \E c \in Chars, x \in MoveTargets : nOps < MaxTowerOps /\ MoveTo(c, x)
    \/ \E c \in Chars, deltaTime \in DeltaTimes : nOps < MaxTowerOps /\ Update(c, deltaTime)
    \/ \E id \in AbilityIds : \E target \in TargetsOf(id) : nOps < MaxTowerOps /\ Activate(id, target)
    \/ \E deltaTime \in DeltaTimes : nOps < MaxTowerOps /\ AbilityUpdate(deltaTime)

SpecTower == Init /\ [][NextTower]_vars

(***************************************************************************)
(* Properties                                                               *)
(***************************************************************************)
Stats(c) == characters[c].stats
IsCall(op) == lastOp'.op = op

\* C1: health stays within [0, maxHealth]; when health is 0 the death flag
\* is set, once set it stays set, and a takeDamage or heal call on a dead
\* character leaves its health unchanged.
C1_HealthBounded ==
    /\ [](\A c \in Chars : Stats(c).health >= 0 /\ Stats(c).health <= Stats(c).maxHealth)
    /\ [](\A c \in Chars : Stats(c).health = 0 => characters[c].isDead)
    /\ [][\A c \in Chars :
            /\ characters[c].isDead => characters'[c].isDead
            /\ ( /\ characters[c].isDead
                 /\ (IsCall("takeDamage") \/ IsCall("heal"))
                 /\ lastOp'.subject = c )
               => Stats(c)'.health = Stats(c).health]_vars

\* A takeDamage or heal call was made on a character that was already dead.
C1_Witness ==
    /\ lastOp.op \in {"takeDamage", "heal"}
    /\ lastOp.dead
    /\ characters[lastOp.subject].isDead
    /\ Stats(lastOp.subject).health = 0

\* C2: a character's health is 0 if and only if its death flag is set.
C2_DeadIffZeroHealth ==
    \A c \in Chars : (Stats(c).health = 0) <=> characters[c].isDead

\* C3: mana stays within [0, maxMana].
C3_ManaBounded ==
    \A c \in Chars : Stats(c).mana >= 0 /\ Stats(c).mana <= Stats(c).maxMana

\* A spendMana call asked for more mana than the character had and was refused.
C3_Witness ==
    /\ lastOp.op = "spendMana"
    /\ lastOp.ret = "false"
    /\ Stats(Owner).mana < Fifths(15)

\* C4: activate while remainingCooldown > 0 returns false and leaves the
\* owner's mana, the remaining cooldown and the active flag unchanged.
C4_OnCooldownRejected ==
    [][(IsCall("activate") /\ abilities[lastOp'.subject].remainingCooldown > 0)
        => /\ lastOp'.ret = "false"
           /\ Stats(Owner)'.mana = Stats(Owner).mana
           /\ abilities' = abilities]_vars

\* activate was called on an ability that was on cooldown.
C4_Witness ==
    /\ lastOp.op = "activate"
    /\ lastOp.path = "cooldown"
    /\ abilities[lastOp.subject].remainingCooldown > 0

\* C5: an activate that returns true reduces the owner's mana by exactly
\* manaCost and leaves remainingCooldown equal to data.cooldown.
C5_SuccessDeductsAndArms ==
    [][(IsCall("activate") /\ lastOp'.ret = "true")
        => /\ Stats(Owner)'.mana = Stats(Owner).mana - AbilityData(lastOp'.subject).manaCost
           /\ abilities'[lastOp'.subject].remainingCooldown
                = AbilityData(lastOp'.subject).cooldown]_vars

\* An activate call returned true.
C5_Witness ==
    /\ lastOp.op = "activate"
    /\ lastOp.ret = "true"
    /\ abilities[lastOp.subject].remainingCooldown > 0

\* The ability-specific precondition of C6, in the claim's words: a
\* direct-damage ability needs a live target no farther than data.range, a
\* placement ability needs a target position.
TooFar(target, range) ==
    LET dx == characters[Owner].position.x - characters[target].position.x
        dy == characters[Owner].position.y - characters[target].position.y
    IN  dx * dx + dy * dy > Len20(range) * Len20(range)

PreconditionFails(id, target) ==
    \/ /\ id = "laser_beam"
       /\ \/ target = NoTarget
          \/ characters[target].isDead
          \/ TooFar(target, AbilityData(id).range)
    \/ /\ id = "deploy_turret"
       /\ target = NoTarget

\* C6: off cooldown, with mana below manaCost or a failing precondition,
\* activate returns false and changes neither the owner's mana, nor the
\* cooldown, nor the active flag, nor the target's health.
C6_RejectedWithoutEffect ==
    [][( /\ IsCall("activate")
         /\ abilities[lastOp'.subject].remainingCooldown = 0
         /\ \/ Stats(Owner).mana < AbilityData(lastOp'.subject).manaCost
            \/ PreconditionFails(lastOp'.subject, lastOp'.target) )
        => /\ lastOp'.ret = "false"
           /\ Stats(Owner)'.mana = Stats(Owner).mana
           /\ abilities' = abilities
           /\ \A c \in Chars : Stats(c)'.health = Stats(c).health]_vars

\* The laser was off cooldown and affordable and was refused for a live
\* target out of range.
C6_Witness ==
    /\ lastOp.op = "activate"
    /\ lastOp.subject = "laser_beam"
    /\ lastOp.ret = "false"
    /\ lastOp.target = "enemy"
    /\ ~characters["enemy"].isDead
    /\ abilities["laser_beam"].remainingCooldown = 0
    /\ Stats(Owner).mana >= AbilityData("laser_beam").manaCost

\* C7: when the owner is dead, activate returns false and changes nothing.
C7_DeadOwnerRejected ==
    [][(IsCall("activate") /\ characters[Owner].isDead)
        => /\ lastOp'.ret = "false"
           /\ characters' = characters
           /\ abilities' = abilities
           /\ shield' = shield]_vars

\* C8: from a successful activate until update calls have advanced
\* data.cooldown seconds in total every activate is rejected; from then on
\* the remaining cooldown is exactly 0 and an activate with enough mana and
\* a passing precondition succeeds.
C8_CooldownElapses ==
    /\ [](\A id \in AbilityIds :
            abilities[id].remainingCooldown = AbilityData(id).cooldown - sinceActivate[id])
    /\ [][\A id \in AbilityIds : (IsCall("activate") /\ lastOp'.subject = id)
            => /\ sinceActivate[id] < AbilityData(id).cooldown => lastOp'.ret = "false"
               /\ ( /\ sinceActivate[id] >= AbilityData(id).cooldown
                    /\ Stats(Owner).mana >= AbilityData(id).manaCost
                    /\ ~PreconditionFails(id, lastOp'.target) )
                  => lastOp'.ret = "true"]_vars

\* The laser (25 damage, cooldown 3) has hit the enemy a second time: its
\* second activation succeeded after the ticks in between.
C8_Witness ==
    /\ lastOp.op = "activate"
    /\ lastOp.subject = "laser_beam"
    /\ lastOp.ret = "true"
    /\ Stats("enemy").health = 120 - 25 - 25
    /\ sinceActivate["laser_beam"] = 0

InTagIndex(byTag, r) == \E i \in 1..Len(byTag) : r \in SeqRange(byTag[i].set)

\* C9: after removeEntity(id) returns true the removed entity is reachable
\* neither through getEntity(id) nor through any tag's set, and no destroyed
\* entity is ever a member of a tag index set.
C9_RemovedUnreachable ==
    /\ [](\A r \in Refs : heap[r].destroyed => ~InTagIndex(entitiesByTag, r))
    /\ [][(IsCall("removeEntity") /\ lastOp'.ret = "true")
            => /\ getEntity(entities', lastOp'.subject) = NoEntity
               /\ ~InTagIndex(entitiesByTag', getEntity(entities, lastOp'.subject))]_vars

InTagSet(byTag, r, tag) == r \in SeqRange(tagSet(byTag, tag))

\* The entity objects the id index holds.
Registered == {r \in Refs : \E i \in 1..Len(entities) : entities[i].ref = r}

\* C11: no tag is mapped to an empty set; a live entity of the registry is
\* in the set of tag t exactly when its own tag set contains t; and an
\* addTagToEntity or removeTagFromEntity call keeps that agreement for every
\* live entity and tag for which it held before the call.
C11_TagIndexConsistent ==
    /\ [](\A i \in 1..Len(entitiesByTag) : Len(entitiesByTag[i].set) > 0)
    /\ [](\A r \in Registered \cap LiveRefs : \A tag \in Tags :
            InTagSet(entitiesByTag, r, tag) <=> tag \in heap[r].tags)
    /\ [][(IsCall("addTagToEntity") \/ IsCall("removeTagFromEntity"))
            => \A r \in LiveRefs : \A tag \in Tags :
                 (InTagSet(entitiesByTag, r, tag) <=> tag \in heap[r].tags)
                 => (InTagSet(entitiesByTag', r, tag) <=> tag \in heap'[r].tags)]_vars

\* The last entity of a tag has lost the tag while another tag is still
\* carried by a live entity.
C11_Witness ==
    /\ lastOp.op = "removeTagFromEntity"
    /\ lastOp.path = "lastOfTag"
    /\ ~tagPresent(entitiesByTag, lastOp.target)
    /\ \E r \in LiveRefs : \E tag \in Tags : tag \in heap[r].tags /\ InTagSet(entitiesByTag, r, tag)

\* C10: createEntity with the id of a live entity fails with DuplicateId and
\* leaves the registry unchanged.
C10_DuplicateIdRejected ==
    [][(IsCall("createEntity") /\ getEntity(entities, lastOp'.subject) # NoEntity)
        => /\ lastOp'.ret = "DuplicateId"
           /\ entities' = entities
           /\ entitiesByTag' = entitiesByTag
           /\ \A r \in Refs : heap'[r] = heap[r]]_vars

LogPosition(r) == CHOOSE i \in 1..Len(entities) : entities[i].ref = r

\* C12: one EntityManager.update(dt) invokes, for every entity of the id
\* index and every component attached to it, that component's update
\* exactly once with the same dt, invokes nothing else, and goes through
\* the entities in insertion order.
C12_UpdateEveryEntityOnce ==
    [][IsCall("entityManagerUpdate")
        => /\ \A r \in Registered : \A type \in SeqRange(heap[r].components) :
                Cardinality({k \in 1..Len(updateLog') :
                                updateLog'[k] = [ref |-> r, type |-> type,
                                                 deltaTime |-> lastOp'.arg]}) = 1
           /\ \A k \in 1..Len(updateLog') :
                /\ updateLog'[k].ref \in Registered
                /\ updateLog'[k].type \in SeqRange(heap[updateLog'[k].ref].components)
                /\ updateLog'[k].deltaTime = lastOp'.arg
           /\ \A k1, k2 \in 1..Len(updateLog') :
                k1 < k2 => LogPosition(updateLog'[k1].ref) <= LogPosition(updateLog'[k2].ref)]_vars

\* C13: attack by a live attacker on a live target lowers the target's
\* health by exactly min(health, max(1, attack - defense)); attack by a dead
\* attacker changes nothing.
C13_AttackDamage ==
    [][\A a \in Chars : \A t \in Chars :
         (IsCall("attack") /\ lastOp'.subject = a /\ lastOp'.target = t)
         => /\ (~characters[a].isDead /\ ~characters[t].isDead)
                 => Stats(t)'.health
                      = Stats(t).health
                          - Min(Stats(t).health, Max(1, Stats(a).attack - Stats(t).defense))
            /\ characters[a].isDead
                 => /\ characters' = characters
                    /\ abilities' = abilities
                    /\ shield' = shield]_vars

\* A live attacker has hit a target whose defense is not below its attack:
\* the target lost exactly 1 health.
C13_Witness ==
    /\ lastOp.op = "attack"
    /\ ~lastOp.dead
    /\ Stats(lastOp.target).defense >= Stats(lastOp.subject).attack
    /\ Stats(lastOp.target).health = Stats(lastOp.target).maxHealth - 1

\* C14: gainExperience(amount) adds amount to experience; when the sum is
\* at least level * 100 there is exactly one level-up (level + 1, experience
\* 0, maxHealth + 20 and health at the new maximum, maxMana + 10 and mana at
\* the new maximum, attack + 2, defense + 1); otherwise only experience
\* changes.
C14_GainExperience ==
    [][\A c \in Chars : (IsCall("gainExperience") /\ lastOp'.subject = c)
         => LET e == Stats(c).experience + lastOp'.arg IN
            /\ e >= Stats(c).level * 100
                 => Stats(c)' = [level |-> Stats(c).level + 1,
                                 experience |-> 0,
                                 maxHealth |-> Stats(c).maxHealth + 20,
                                 health |-> Stats(c).maxHealth + 20,
                                 maxMana |-> Stats(c).maxMana + Fifths(10),
                                 mana |-> Stats(c).maxMana + Fifths(10),
                                 attack |-> Stats(c).attack + 2,
                                 defense |-> Stats(c).defense + 1,
                                 speed |-> Stats(c).speed]
            /\ e < Stats(c).level * 100
                 => Stats(c)' = [Stats(c) EXCEPT !.experience = e]]_vars

\* A level-1 character gained 300 experience, enough for two thresholds,
\* and is at level 2 with the bonuses of one level-up.
C14_Witness ==
    /\ lastOp.op = "gainExperience"
    /\ lastOp.arg = 300
    /\ Stats(lastOp.subject).level = 2
    /\ Stats(lastOp.subject).experience = 0
    /\ Stats(lastOp.subject).attack = initializeStats(Race(lastOp.subject)).attack + 2

\* C15 as stated: when a gain crosses the threshold, the experience left is
\* the excess over the threshold (95 + 10 at level 1 leaves 5), with level
\* + 1, maxHealth + 20 and health at the new maximum.
C15_ExcessCarriedOver ==
    [][\A c \in Chars : (IsCall("gainExperience") /\ lastOp'.subject = c)
         => LET e == Stats(c).experience + lastOp'.arg IN
            e >= Stats(c).level * 100
              => /\ Stats(c)'.experience = e - Stats(c).level * 100
                 /\ Stats(c)'.level = Stats(c).level + 1
                 /\ Stats(c)'.maxHealth = Stats(c).maxHealth + 20
                 /\ Stats(c)'.health = Stats(c)'.maxHealth]_vars

\* C15 amended: when a gain crosses the threshold, the experience left is 0
\* whatever the excess (95 + 10 at level 1 leaves 0), with level + 1,
\* maxHealth + 20 and health at the new maximum.
C15_ExperienceReset ==
    [][\A c \in Chars : (IsCall("gainExperience") /\ lastOp'.subject = c)
         => LET e == Stats(c).experience + lastOp'.arg IN
            e >= Stats(c).level * 100
              => /\ Stats(c)'.experience = 0
                 /\ Stats(c)'.level = Stats(c).level + 1
                 /\ Stats(c)'.maxHealth = Stats(c).maxHealth + 20
                 /\ Stats(c)'.health = Stats(c)'.maxHealth]_vars

\* A level-1 character with experience 95 gained 10.
C15_Witness ==
    /\ lastOp.op = "gainExperience"
    /\ lastOp.arg = 10
    /\ Stats(lastOp.subject).level = 2
    /\ Stats(lastOp.subject).experience = 0
    /\ Stats(lastOp.subject).maxHealth = initializeStats(Race(lastOp.subject)).maxHealth + 20
    /\ Stats(lastOp.subject).health = Stats(lastOp.subject).maxHealth

\* What the claims call observable: of a character its movement intent,
\* position, animation-state hint and stats; of the abilities their
\* cooldowns and active flags; of the tower its candidates and current target.
Observable ==
    <<[c \in Chars |-> <<characters[c].isMoving, characters[c].targetPosition,
                         characters[c].position, characters[c].animationState,
                         characters[c].stats>>],
      abilities,
      tower.targets, tower.currentTarget>>

\* C16: update(0) on a character, on the ability component or on the tower
\* leaves all observable state unchanged.
C16_UpdateZeroIdempotent ==
    [][((IsCall("update") \/ IsCall("abilityUpdate") \/ IsCall("towerUpdate"))
        /\ lastOp'.arg = 0)
        => Observable' = Observable]_vars

\* C17: on a live tower, registerTarget(x) of an x not yet registered
\* followed at once by unregisterTarget(x) restores the candidates; the
\* current target is restored too when x was not current at the removal,
\* and is the first remaining candidate, or unset, when x was current.
C17_RegisterUnregisterRoundTrip ==
    [][\A x \in Chars :
         ( /\ IsCall("unregisterTarget") /\ lastOp'.target = x
           /\ lastOp.op = "registerTarget" /\ lastOp.target = x /\ lastOp.path = "added" )
         => /\ tower'.targets = towerBefore.targets
            /\ tower.currentTarget # x
                 => tower'.currentTarget = towerBefore.currentTarget
            /\ tower.currentTarget = x
                 => tower'.currentTarget
                      = IF Len(tower'.targets) > 0 THEN tower'.targets[1] ELSE NoTarget]_vars

\* The enemy was registered after the hero, who stayed current, and then
\* unregistered: the tower is as it was with the hero alone.
C17_Witness ==
    /\ nOps = 3
    /\ lastOp.op = "unregisterTarget"
    /\ lastOp.target = "enemy"
    /\ lastOp.path = "removed"
    /\ towerBefore = [targets |-> <<"hero", "enemy">>, currentTarget |-> "hero"]
    /\ tower.targets = <<"hero">>
    /\ tower.currentTarget = "hero"

\* C18: the tower's current target, if set, is one of the registered
\* targets and is not dead.
C18_CurrentTargetRegisteredAlive ==
    tower.currentTarget # NoTarget
      => /\ registered(tower, tower.currentTarget)
         /\ ~characters[tower.currentTarget].isDead

\* C19: for a live character whose movement target is closer than 0.1
\* (two twentieths), the next update clears the movement intent and leaves
\* the position unchanged, whatever the delta time and the speed.
C19_CloseTargetStops ==
    [][\A c \in Chars :
         ( /\ IsCall("update") /\ lastOp'.subject = c
           /\ ~characters[c].isDead
           /\ characters[c].isMoving
           /\ characters[c].targetPosition # NoPosition
           /\ Abs(characters[c].targetPosition[1] - characters[c].position.x) < 2 )
         => /\ ~characters'[c].isMoving
            /\ characters'[c].targetPosition = NoPosition
            /\ characters'[c].position = characters[c].position]_vars

\* The enemy was sent to a point 0.05 from where it stands and updated
\* with a delta time of two seconds.
C19_Witness ==
    /\ lastOp.op = "update"
    /\ lastOp.subject = "enemy"
    /\ lastOp.path = "arrived"
    /\ lastOp.arg = 2
    /\ ~characters["enemy"].isMoving
    /\ characters["enemy"].position.x = Len20(5)

\* C20: once a character is dead none of its stats changes any more.
C20_DeadStatsFrozen ==
    [][\A c \in Chars : characters[c].isDead => Stats(c)' = Stats(c)]_vars

\* C21: a successful activation of the shield generator (duration d) on an
\* owner with defense D leaves the defense at floor(D * 1.5), and once the
\* updates since then have advanced at least d seconds the defense is D again.
C21_ShieldBuffReverts ==
    /\ [][(IsCall("activate") /\ lastOp'.subject = "shield_generator" /\ lastOp'.ret = "true")
            => Stats(Owner)'.defense = (Stats(Owner).defense * 3) \div 2]_vars
    /\ []((shield.originalDefense # 0
           /\ sinceActivate["shield_generator"] >= AbilityData("shield_generator").duration)
            => Stats(Owner).defense = shield.originalDefense)

Kind(id) == AbilityData(id).type

\* C22: a successful activate of an Active-kind ability invokes the effect
\* hook exactly once, with the mana already deducted and the cooldown
\* already set, and leaves the active flag false; the flag of an
\* Active-kind ability is false in every state between calls.
C22_ActiveEffectOnce ==
    /\ [][(IsCall("activate") /\ lastOp'.ret = "true" /\ Kind(lastOp'.subject) = "active")
            => /\ Len(hookLog') = 1
               /\ hookLog'[1].hook = "performEffect"
               /\ hookLog'[1].id = lastOp'.subject
               /\ hookLog'[1].mana = Stats(Owner).mana - AbilityData(lastOp'.subject).manaCost
               /\ hookLog'[1].remainingCooldown = AbilityData(lastOp'.subject).cooldown
               /\ ~abilities'[lastOp'.subject].isActive]_vars
    /\ [](\A id \in AllAbilityIds : Kind(id) = "active" => ~abilities[id].isActive)

\* The laser was fired at the enemy: its effect ran once, after the
\* deduction of its 15 mana.
C22_Witness ==
    /\ lastOp.op = "activate"
    /\ lastOp.subject = "laser_beam"
    /\ lastOp.ret = "true"
    /\ Len(hookLog) = 1
    /\ hookLog[1].mana = Stats(Owner).mana
    /\ Stats("enemy").health = initializeStats(Race("enemy")).health - AbilityData("laser_beam").damage

\* C23: a successful activate of a Toggle-kind ability flips the active
\* flag and invokes no effect hook; an update invokes the ongoing-effect
\* hook of every Toggle-kind ability whose flag is true, once; deactivate
\* clears the flag of a Toggle-kind ability, changes nothing for the other
\* kinds, and never changes mana or a cooldown.
C23_ToggleAndDeactivate ==
    /\ [][(IsCall("activate") /\ lastOp'.ret = "true" /\ Kind(lastOp'.subject) = "toggle")
            => /\ abilities'[lastOp'.subject].isActive = ~abilities[lastOp'.subject].isActive
               /\ hookLog' = << >>]_vars
    /\ [][IsCall("abilityUpdate")
            => \A id \in AllAbilityIds : (Kind(id) = "toggle" /\ abilities[id].isActive)
                 => Cardinality({k \in 1..Len(hookLog') :
                                    /\ hookLog'[k].hook = "updateActiveEffect"
                                    /\ hookLog'[k].id = id}) = 1]_vars
    /\ [][IsCall("deactivate")
            => /\ Kind(lastOp'.subject) = "toggle" => ~abilities'[lastOp'.subject].isActive
               /\ Kind(lastOp'.subject) # "toggle"
                    => abilities'[lastOp'.subject] = abilities[lastOp'.subject]
               /\ characters' = characters
               /\ \A id \in AllAbilityIds :
                    abilities'[id].remainingCooldown = abilities[id].remainingCooldown]_vars

\* The toggle ability was switched on by activate and off again by
\* deactivate, its cooldown still running.
C23_Witness ==
    /\ nOps = 2
    /\ lastOp.op = "deactivate"
    /\ lastOp.subject = "toggle_ability"
    /\ ~abilities["toggle_ability"].isActive
    /\ abilities["toggle_ability"].remainingCooldown = AbilityData("toggle_ability").cooldown
    /\ Stats(Owner).mana = initializeStats(Race(Owner)).mana - AbilityData("toggle_ability").manaCost

\* C24: moveTo on a dead character changes neither the movement intent nor
\* the animation-state hint.
C24_MoveToDeadNoOp ==
    [][\A c \in Chars : (IsCall("moveTo") /\ lastOp'.subject = c /\ characters[c].isDead)
         => /\ characters'[c].isMoving = characters[c].isMoving
            /\ characters'[c].targetPosition = characters[c].targetPosition
            /\ characters'[c].animationState = characters[c].animationState]_vars

\* C28: for a character with animation groups, the step that sets the
\* death flag leaves the animation-state hint at Dying, and no later call
\* or timer callback changes it.
C28_DyingHintStays ==
    [][\A c \in Chars : characters[c].animationGroups
         => /\ (~characters[c].isDead /\ characters'[c].isDead)
                 => characters'[c].animationState = "dying"
            /\ (characters[c].isDead /\ characters[c].animationState = "dying")
                 => characters'[c].animationState = "dying"]_vars

\* C30: after every gainExperience call experience is below level * 100.
C30_ExperienceBelowThreshold ==
    \A c \in Chars : Stats(c).experience >= 0 /\ Stats(c).experience < Stats(c).level * 100

\* A character already at level 2 gained 300 experience, more than the
\* threshold of 200, and is at level 3 with no experience.
C30_Witness ==
    /\ lastOp.op = "gainExperience"
    /\ lastOp.arg = 300
    /\ Stats(lastOp.subject).level = 3
    /\ Stats(lastOp.subject).experience = 0

\* C25: an update of a live tower whose current target is alive, at least
\* 1 / attackSpeed seconds after lastAttackTime, deals exactly the tower's
\* attack as damage to that target and sets lastAttackTime to the current
\* time; an update that attacks is never closer than 1 / attackSpeed
\* seconds to the previous attack.
C25_TowerAttacksWhenDue ==
    /\ [][\A c \in Chars :
            ( /\ IsCall("towerUpdate")
              /\ ~tower.isDead
              /\ tower.currentTarget = c
              /\ ~characters[c].isDead
              /\ (clock' - tower.stats.lastAttackTime) * tower.stats.attackSpeed >= 1 )
            => /\ characters'[c] = takeDamage(characters[c], tower.stats.attack)
               /\ tower'.stats.lastAttackTime = clock']_vars
    /\ [][tower'.stats.lastAttackTime # tower.stats.lastAttackTime
            => (tower'.stats.lastAttackTime - tower.stats.lastAttackTime)
                 * tower.stats.attackSpeed >= 1]_vars

\* C26: 0 <= remainingCooldown <= data.cooldown for every ability, and
\* update(dt) sets it to max(0, remainingCooldown - dt).
C26_CooldownBounded ==
    /\ [](\A id \in AllAbilityIds :
            /\ abilities[id].remainingCooldown >= 0
            /\ abilities[id].remainingCooldown <= AbilityData(id).cooldown)
    /\ [][IsCall("abilityUpdate")
            => \A id \in AllAbilityIds :
                 abilities'[id].remainingCooldown
                   = Max(0, abilities[id].remainingCooldown - lastOp'.arg)]_vars

\* The laser (cooldown 3) was fired and then updated by 2 and by 2 seconds:
\* its remaining cooldown was 1 and is 0.
C26_Witness ==
    /\ nOps = 3
    /\ lastOp.op = "abilityUpdate"
    /\ lastOp.arg = 2
    /\ abilities["laser_beam"].remainingCooldown = 0
    /\ abilities["deploy_turret"].remainingCooldown = 0
    /\ abilities["shield_generator"].remainingCooldown = 0
    /\ Stats("enemy").health < initializeStats(Race("enemy")).health
    /\ Stats(Owner).mana = initializeStats(Race(Owner)).mana - AbilityData("laser_beam").manaCost

\* C29: a movement intent set by a click on the model, with no movement
\* key held, is still set after the next frame's update unless the
\* character is within the stop threshold of the target, and it persists
\* over every later frame with no key held until the character is within
\* the threshold.
C29_ClickIntentPersists ==
    /\ [][( /\ lastOp.op = "handleModelClick" /\ lastOp.ret = "moved"
            /\ IsCall("gameplayUpdate") /\ lastOp'.path = "none"
            /\ ~characters[Owner].isDead
            /\ ~arrived(characters[Owner]) )
            => /\ characters'[Owner].isMoving
               /\ characters'[Owner].targetPosition = <<lastOp.arg>>]_vars
    /\ [][( /\ IsCall("gameplayUpdate") /\ lastOp'.path = "none"
            /\ ~characters[Owner].isDead
            /\ characters[Owner].isMoving /\ characters[Owner].targetPosition # NoPosition
            /\ ~arrived(characters[Owner]) )
            => /\ characters'[Owner].isMoving
               /\ characters'[Owner].targetPosition = characters[Owner].targetPosition]_vars

\* C27: a live character with a movement intent, updated again and again
\* with a fixed positive frame time, eventually comes within the stop
\* threshold and has its intent cleared, also when speed * dt is larger
\* than the distance that remains.
C27_WalkTerminates ==
    \A c \in Chars :
        (~characters[c].isDead /\ characters[c].isMoving) ~> ~characters[c].isMoving

====
